---- MODULE Spec2Model ----
(***************************************************************************)
(* The grocery marketplace server: MemStorage (server/storage.ts), the     *)
(* REST routes (server/routes.ts) and the registration, login and logout   *)
(* handlers (server/auth.ts), as a state machine.  One action per handler; *)
(* the register handler is two actions because it awaits the scrypt hash   *)
(* between its username check and the insert.  The browser's cart          *)
(* (client/src/context/CartContext.tsx) is modelled next to it, one action *)
(* per operation of CartProvider.                                          *)
(*                                                                         *)
(* JSON values in request bodies are encoded as integers: a natural number *)
(* is that number, NonInteger is a value of another type (a string where a *)
(* number is expected), Undefined is an absent key, and Null is a JSON     *)
(* null.  Records keep only the fields the handlers read or overwrite.     *)
(***************************************************************************)
EXTENDS Integers, Sequences, FiniteSets, TLC

\* ------------------------------------------------------------------ bounds
MaxStores == 2          \* store ids handed out are 1..MaxStores
MaxProducts == 2        \* product ids handed out are 1..MaxProducts
MaxOrders == 2          \* order ids handed out are 1..MaxOrders
MaxOrderItems == 2      \* order-item ids handed out are 1..MaxOrderItems
MaxUsers == 2           \* user ids handed out are 1..MaxUsers
MaxItems == 2           \* longest items array of a POST /api/orders body
MaxHashing == 2         \* registrations whose password hash is in flight
MaxCreated == 2         \* records created after Init in the runs over every route
MaxCartItems == 2       \* longest cart
MaxQuantity == 2        \* largest quantity of a cart line

\* ------------------------------------------------------- encoded JS values
NonInteger == -1
Undefined == -2
Null == -3

\* Wall-clock instants (ms) the requests arrive at: 0, 1 s, 10 min, 10 min 1 s.
\* Their differences cover the ages 0:01, 9:59, 10:00 and 10:01.
Instants == {0, 1000, 600000, 601000}

\* Math.random() * 15 * 60000 rounded down by the Date constructor: the two
\* ends of its range.
RandomDelays == {0, 899999}

Usernames == {"alice", "bob"}
\* a username that is absent from the body (or not a string)
NoString == "<undefined>"

Statuses == {"pending", "processing", "out_for_delivery", "delivered", "cancelled"}

VARIABLES
    users,              \* MemStorage.users: id -> User
    stores,             \* MemStorage.stores: id -> Store
    categories,         \* MemStorage.categories: the ids stored
    products,           \* MemStorage.products: id -> Product
    orders,             \* MemStorage.orders: id -> Order
    orderItems,         \* MemStorage.orderItems: id -> OrderItem
    userIdCounter, storeIdCounter, categoryIdCounter,
    productIdCounter, orderIdCounter, orderItemIdCounter,
    hashing,            \* register requests awaiting hashPassword
    now,                \* the wall clock, ms
    res,                \* the last request and its response
    session,            \* the browser's session: the user id passport keeps, or Null
    location,           \* the browser: the path wouter shows
    user,               \* the browser: useAuth().user is set (someone is logged in)
    cartItems,          \* CartProvider.items: the cart's lines, in order
    cartStoreId,        \* CartProvider.storeId: a store id or Null
    isCartOpen          \* CartProvider.isCartOpen

storageVars == <<users, stores, categories, products, orders, orderItems,
                 userIdCounter, storeIdCounter, categoryIdCounter,
                 productIdCounter, orderIdCounter, orderItemIdCounter>>
vars == <<users, stores, categories, products, orders, orderItems,
          userIdCounter, storeIdCounter, categoryIdCounter,
          productIdCounter, orderIdCounter, orderItemIdCounter,
          hashing, now, res, session, location, user, cartItems, cartStoreId, isCartOpen>>
\* the state of the browser's CartProvider
cartVars == <<location, user, cartItems, cartStoreId, isCartOpen>>

\* ----------------------------------------------------------------- helpers
Put(m, k, v) == [x \in DOMAIN m \cup {k} |-> IF x = k THEN v ELSE m[x]]
Remove(m, ks) == [x \in DOMAIN m \ ks |-> m[x]]

\* { ...existing, ...body }: a key present in the body overrides
SpreadOver(existing, body) ==
    [f \in DOMAIN existing |->
        IF f \in DOMAIN body /\ body[f] # Undefined THEN body[f] ELSE existing[f]]

\* what the log keeps of a request: the route, the id it named, the status
\* code answered and the time it was served at
Response(op, id, status) == [op |-> op, id |-> id, status |-> status, at |-> now]

\* ------------------------------------------------------------ MemStorage
\* getUserByUsername: the users whose username is the given one (the code
\* returns the first of them, or undefined when there is none)
getUserByUsername(us, username) == {k \in DOMAIN us : us[k].username = username}

createUser(us, id, userData) ==
    Put(us, id, [id |-> id, username |-> userData.username,
                 password |-> userData.password,
                 isVendor |-> userData.isVendor])

\* ------------------------------------------------------- passwordUtils
\* a stored password is either the `hash.salt` string hashPassword makes of a
\* password (the salt is random, the hash is of that password) or a string
\* stored as it came in the body
hashPassword(password) == [format |-> "hash.salt", of |-> password]
storedAsGiven(password) == [format |-> "plain", of |-> password]

\* comparePasswords: false unless the stored string splits into hash and
\* salt and the supplied password hashes, with that salt, to that hash
comparePasswords(supplied, stored) ==
    stored.format = "hash.salt" /\ stored.of = supplied

createStore(ss, id, storeData) ==
    Put(ss, id, [id |-> id, vendorId |-> storeData.vendorId])

updateStore(ss, id, storeData) == Put(ss, id, SpreadOver(ss[id], storeData))

getProductsByStore(ps, storeId) == {k \in DOMAIN ps : ps[k].storeId = storeId}

\* the id taken from the size of the map, not from the counter
createProductSizeId(ps, id, productData) ==
    Put(ps, Cardinality(DOMAIN ps) + 1,
        [id |-> Cardinality(DOMAIN ps) + 1, storeId |-> productData.storeId])

createProduct(ps, id, productData) ==
    Put(ps, id, [id |-> id, storeId |-> productData.storeId])

updateProduct(ps, id, productData) == Put(ps, id, SpreadOver(ps[id], productData))

deleteProduct(ps, id) == Remove(ps, {id})

\* the filter dropped: every order is returned
getOrdersByStoreUnfiltered(os, storeId) == DOMAIN os

getOrdersByStore(os, storeId) == {k \in DOMAIN os : os[k].storeId = storeId}

getOrderItems(is, orderId) == {k \in DOMAIN is : is[k].orderId = orderId}

\* the spread written last: { id, status, createdAt, estimatedDelivery, ...orderData }
createOrderBodyLast(os, id, orderData, t, delay) ==
    LET own == [id |-> id, status |-> "pending", createdAt |-> t,
                estimatedDelivery |-> t + 30 * 60000 + delay]
    IN  Put(os, id, [f \in DOMAIN orderData \cup DOMAIN own |->
                        IF f \in DOMAIN orderData THEN orderData[f] ELSE own[f]])

\* the id taken from the size of the map, not from the counter
createOrderSizeId(os, id, orderData, t, delay) ==
    LET sizeId == Cardinality(DOMAIN os) + 1
        own == [id |-> sizeId, status |-> "pending", createdAt |-> t,
                estimatedDelivery |-> t + 30 * 60000 + delay]
    IN  Put(os, sizeId, [f \in DOMAIN orderData \cup DOMAIN own |->
                            IF f \in DOMAIN own THEN own[f] ELSE orderData[f]])

\* { ...orderData, id, status: 'pending', createdAt: now, estimatedDelivery }:
\* the four keys written after the spread override those of orderData.
\* t is new Date(), delay is Math.random() * 15 * 60000 as the Date
\* constructor truncates it.
createOrder(os, id, orderData, t, delay) ==
    LET own == [id |-> id, status |-> "pending", createdAt |-> t,
                estimatedDelivery |-> t + 30 * 60000 + delay]
    IN  Put(os, id, [f \in DOMAIN orderData \cup DOMAIN own |->
                        IF f \in DOMAIN own THEN own[f] ELSE orderData[f]])

updateOrderStatus(os, id, status) == Put(os, id, [os[id] EXCEPT !.status = status])

createOrderItem(is, id, orderItemData) ==
    Put(is, id, [id |-> id, orderId |-> orderItemData.orderId,
                 productId |-> orderItemData.productId])

\* deleteStore, the three collections it rewrites.  The product loop deletes
\* by the id field of each product found, the order loops by order.id and
\* item.id.
deleteStoreProducts(ps, id) ==
    Remove(ps, {ps[k].id : k \in getProductsByStore(ps, id)})

deleteStoreOrderItems(is, os, id) ==
    Remove(is, UNION {{is[k].id : k \in getOrderItems(is, os[o].id)} :
                      o \in getOrdersByStore(os, id)})

deleteStoreOrders(os, id) ==
    Remove(os, {os[o].id : o \in getOrdersByStore(os, id)})

\* --------------------------------------------------------------- schemas
\* a notNull integer column: the key is there and holds a number
IsNumber(v) == v \notin {NonInteger, Undefined, Null}

insertStoreSchema(body) == IsNumber(body.vendorId)
insertProductSchema(body) == IsNumber(body.storeId)
insertOrderSchema(body) == IsNumber(body.userId) /\ IsNumber(body.storeId)

\* what insertOrderSchema.parse returns: the keys of the schema (id, status
\* and createdAt are omitted from it), every other key of the body stripped
OrderKeys == {"userId", "storeId", "estimatedDelivery"}
validatedData(body) == [f \in DOMAIN body \cap OrderKeys |-> body[f]]
insertUserSchema(body) == body.username # NoString /\ body.password # NoString

\* ------------------------------------------------------------------ Init
\* initializeData, with the sample data cut down to one store of vendor 1
\* with one product (the code seeds 3 stores and 21 products the same way);
\* the eight categories are kept.  No user is seeded.
SeedStores == [k \in {1} |-> [vendorId |-> 1]]
SeedProducts == [k \in {1} |-> [storeId |-> 1]]
SeedCategories == 1..8

Init ==
    /\ users = <<>>
    /\ stores = [k \in DOMAIN SeedStores |-> [id |-> k, vendorId |-> SeedStores[k].vendorId]]
    /\ categories = SeedCategories
    /\ products = [k \in DOMAIN SeedProducts |-> [id |-> k, storeId |-> SeedProducts[k].storeId]]
    /\ orders = <<>>
    /\ orderItems = <<>>
    /\ userIdCounter = 1
    /\ storeIdCounter = Cardinality(DOMAIN SeedStores) + 1
    /\ categoryIdCounter = Cardinality(SeedCategories) + 1
    /\ productIdCounter = Cardinality(DOMAIN SeedProducts) + 1
    /\ orderIdCounter = 1
    /\ orderItemIdCounter = 1
    /\ hashing = <<>>
    /\ now = 0
    /\ res = Response("none", 0, 0)
    /\ session = Null
    /\ location = "/"
    /\ user = FALSE
    /\ cartItems = <<>>
    /\ cartStoreId = Null
    /\ isCartOpen = FALSE

\* ------------------------------------------------------- stores endpoints
GetStore(id) ==
    /\ res' = Response("GET /api/stores/:id", id,
                       IF id \in DOMAIN stores THEN 200 ELSE 404)
    /\ UNCHANGED <<storageVars, hashing, now, session, cartVars>>

PostStore(body) ==
    /\ IF ~insertStoreSchema(body)
       THEN /\ res' = Response("POST /api/stores", 0, 400)
            /\ UNCHANGED <<stores, storeIdCounter>>
       ELSE /\ storeIdCounter <= MaxStores
            /\ stores' = createStore(stores, storeIdCounter, body)
            /\ storeIdCounter' = storeIdCounter + 1
            /\ res' = Response("POST /api/stores", storeIdCounter, 201)
    /\ UNCHANGED <<users, categories, products, orders, orderItems, userIdCounter,
                   categoryIdCounter, productIdCounter, orderIdCounter,
                   orderItemIdCounter, hashing, now, session, cartVars>>

PutStore(id, body) ==
    /\ IF id \notin DOMAIN stores
       THEN /\ res' = Response("PUT /api/stores/:id", id, 404)
            /\ UNCHANGED stores
       ELSE /\ stores' = updateStore(stores, id, body)
            /\ res' = Response("PUT /api/stores/:id", id, 200)
    /\ UNCHANGED <<users, categories, products, orders, orderItems, userIdCounter,
                   storeIdCounter, categoryIdCounter, productIdCounter,
                   orderIdCounter, orderItemIdCounter, hashing, now, session, cartVars>>

DeleteStore(id) ==
    /\ IF id \notin DOMAIN stores
       THEN /\ res' = Response("DELETE /api/stores/:id", id, 404)
            /\ UNCHANGED <<stores, products, orders, orderItems>>
       ELSE /\ products' = deleteStoreProducts(products, id)
            /\ orderItems' = deleteStoreOrderItems(orderItems, orders, id)
            /\ orders' = deleteStoreOrders(orders, id)
            /\ stores' = Remove(stores, {id})
            /\ res' = Response("DELETE /api/stores/:id", id, 200)
    /\ UNCHANGED <<users, categories, userIdCounter, storeIdCounter,
                   categoryIdCounter, productIdCounter, orderIdCounter,
                   orderItemIdCounter, hashing, now, session, cartVars>>

\* ----------------------------------------------------- products endpoints
GetProduct(id) ==
    /\ res' = Response("GET /api/products/:id", id,
                       IF id \in DOMAIN products THEN 200 ELSE 404)
    /\ UNCHANGED <<storageVars, hashing, now, session, cartVars>>

PostProduct(body) ==
    /\ IF ~insertProductSchema(body)
       THEN /\ res' = Response("POST /api/products", 0, 400)
            /\ UNCHANGED <<products, productIdCounter>>
       ELSE /\ productIdCounter <= MaxProducts
            /\ products' = createProduct(products, productIdCounter, body)
            /\ productIdCounter' = productIdCounter + 1
            /\ res' = Response("POST /api/products", productIdCounter, 201)
    /\ UNCHANGED <<users, stores, categories, orders, orderItems, userIdCounter,
                   storeIdCounter, categoryIdCounter, orderIdCounter,
                   orderItemIdCounter, hashing, now, session, cartVars>>

PutProduct(id, body) ==
    /\ IF id \notin DOMAIN products
       THEN /\ res' = Response("PUT /api/products/:id", id, 404)
            /\ UNCHANGED products
       ELSE /\ products' = updateProduct(products, id, body)
            /\ res' = Response("PUT /api/products/:id", id, 200)
    /\ UNCHANGED <<users, stores, categories, orders, orderItems, userIdCounter,
                   storeIdCounter, categoryIdCounter, productIdCounter,
                   orderIdCounter, orderItemIdCounter, hashing, now, session, cartVars>>

\* the handler with `success` ignored
deleteProductStatusAlways(success) == 204

\* if (!success) return res.status(404) ...; res.status(204).send()
deleteProductStatus(success) == IF success THEN 204 ELSE 404

DeleteProduct(id) ==
    /\ products' = deleteProduct(products, id)
    /\ res' = Response("DELETE /api/products/:id", id,
                       deleteProductStatus(id \in DOMAIN products))
    /\ UNCHANGED <<users, stores, categories, orders, orderItems, userIdCounter,
                   storeIdCounter, categoryIdCounter, productIdCounter,
                   orderIdCounter, orderItemIdCounter, hashing, now, session, cartVars>>

\* ------------------------------------------------------- orders endpoints
GetOrder(id) ==
    /\ res' = Response("GET /api/orders/:id", id,
                       IF id \in DOMAIN orders THEN 200 ELSE 404)
    /\ UNCHANGED <<storageVars, hashing, now, session, cartVars>>

\* req.body.items || []: an array is looped over, an absent key gives [],
\* any other truthy value (a number, an object) is not iterable
ItemsOf(body) == IF body.items.kind = "array" THEN body.items.elems ELSE <<>>
ItemsIterable(body) == body.items.kind \in {"array", "absent"}

\* `for (const item of orderItems)` reads item.productId: a null element
\* throws a TypeError, the elements before it have been stored
FirstNull(elems) ==
    IF \E i \in 1..Len(elems) : elems[i] = Null
    THEN CHOOSE i \in 1..Len(elems) :
            elems[i] = Null /\ \A j \in 1..(i - 1) : elems[j] # Null
    ELSE Len(elems) + 1

RECURSIVE createOrderItems(_, _, _, _)
createOrderItems(is, nextId, orderId, elems) ==
    IF elems = <<>> THEN is
    ELSE createOrderItems(
            createOrderItem(is, nextId, [orderId |-> orderId, productId |-> Head(elems)]),
            nextId + 1, orderId, Tail(elems))

PostOrder(body, delay) ==
    /\ IF ~insertOrderSchema(body)
       THEN /\ res' = Response("POST /api/orders", 0, 400)
            /\ UNCHANGED <<orders, orderItems, orderIdCounter, orderItemIdCounter>>
       ELSE LET id == orderIdCounter
                elems == ItemsOf(body)
                stored == IF ItemsIterable(body)
                          THEN SubSeq(elems, 1, FirstNull(elems) - 1) ELSE <<>>
                threw == ~ItemsIterable(body) \/ FirstNull(elems) <= Len(elems)
            IN  /\ orderIdCounter <= MaxOrders
                /\ orderItemIdCounter + Len(stored) - 1 <= MaxOrderItems
                /\ orders' = createOrder(orders, id, validatedData(body), now, delay)
                /\ orderIdCounter' = orderIdCounter + 1
                /\ orderItems' = createOrderItems(orderItems, orderItemIdCounter, id, stored)
                /\ orderItemIdCounter' = orderItemIdCounter + Len(stored)
                /\ res' = Response("POST /api/orders", id, IF threw THEN 500 ELSE 201)
    /\ UNCHANGED <<users, stores, categories, products, userIdCounter,
                   storeIdCounter, categoryIdCounter, productIdCounter, hashing,
                   now, session, cartVars>>

\* !status || typeof status !== 'string'
StatusMissing(body) == body.status = "" \/ body.status = NoString

PutOrderStatus(id, body) ==
    /\ IF StatusMissing(body)
       THEN /\ res' = Response("PUT /api/orders/:id/status", id, 400)
            /\ UNCHANGED orders
       ELSE IF id \notin DOMAIN orders
       THEN /\ res' = Response("PUT /api/orders/:id/status", id, 404)
            /\ UNCHANGED orders
       ELSE /\ orders' = updateOrderStatus(orders, id, body.status)
            /\ res' = Response("PUT /api/orders/:id/status", id, 200)
    /\ UNCHANGED <<users, stores, categories, products, orderItems, userIdCounter,
                   storeIdCounter, categoryIdCounter, productIdCounter,
                   orderIdCounter, orderItemIdCounter, hashing, now, session, cartVars>>

\* the same check with the difference taken for seconds, not milliseconds
TooLateToCancelInSeconds(order, currentTime) ==
    currentTime - order.createdAt > 10 * 1000 * (1000 * 60)

\* the same check with >= for >
TooLateToCancelAtTen(order, currentTime) ==
    currentTime - order.createdAt >= 10 * (1000 * 60)

\* timeDiffInMinutes > 10, with timeDiffInMinutes = (current - created) / (1000 * 60)
TooLateToCancel(order, currentTime) ==
    currentTime - order.createdAt > 10 * (1000 * 60)

\* the same check with the delivered case forgotten
CannotBeCancelledOnlyCancelled(order) == order.status = "cancelled"

\* order.status === 'cancelled' || order.status === 'delivered'
CannotBeCancelled(order) == order.status = "cancelled" \/ order.status = "delivered"

CancelOrder(id) ==
    /\ IF id \notin DOMAIN orders
       THEN /\ res' = Response("POST /api/orders/:id/cancel", id, 404)
            /\ UNCHANGED orders
       ELSE IF TooLateToCancel(orders[id], now)
       THEN /\ res' = Response("POST /api/orders/:id/cancel", id, 400)
            /\ UNCHANGED orders
       ELSE IF CannotBeCancelled(orders[id])
       THEN /\ res' = Response("POST /api/orders/:id/cancel", id, 400)
            /\ UNCHANGED orders
       ELSE /\ orders' = updateOrderStatus(orders, id, "cancelled")
            /\ res' = Response("POST /api/orders/:id/cancel", id, 200)
    /\ UNCHANGED <<users, stores, categories, products, orderItems, userIdCounter,
                   storeIdCounter, categoryIdCounter, productIdCounter,
                   orderIdCounter, orderItemIdCounter, hashing, now, session, cartVars>>

\* the orders page (OrdersPage.canCancelOrder): whether it offers the cancel
\* button for an order at currentTime
canCancelOrder(order, currentTime) ==
    currentTime - order.createdAt <= 10 * (1000 * 60) /\ order.status = "pending"

\* -------------------------------------------------------- users endpoints
PostUser(body) ==
    /\ IF ~insertUserSchema(body)
       THEN /\ res' = Response("POST /api/users", 0, 400)
            /\ UNCHANGED <<users, userIdCounter>>
       ELSE IF getUserByUsername(users, body.username) # {}
       THEN /\ res' = Response("POST /api/users", 0, 409)
            /\ UNCHANGED <<users, userIdCounter>>
       ELSE /\ userIdCounter <= MaxUsers
            \* the schema omits isVendor, so the parsed data carries none
            /\ users' = createUser(users, userIdCounter,
                                   [username |-> body.username,
                                    password |-> storedAsGiven(body.password),
                                    isVendor |-> FALSE])
            /\ userIdCounter' = userIdCounter + 1
            /\ res' = Response("POST /api/users", userIdCounter, 201)
    /\ UNCHANGED <<stores, categories, products, orders, orderItems,
                   storeIdCounter, categoryIdCounter, productIdCounter,
                   orderIdCounter, orderItemIdCounter, hashing, now, session, cartVars>>

\* POST /api/register up to `await hashPassword(plainPassword)`
RegisterBegin(body) ==
    /\ IF body.username \in {"", NoString} \/ body.password \in {"", NoString}
       THEN /\ res' = Response("POST /api/register", 0, 400)
            /\ UNCHANGED hashing
       ELSE IF getUserByUsername(users, body.username) # {}
       THEN /\ res' = Response("POST /api/register", 0, 400)
            /\ UNCHANGED hashing
       ELSE /\ Len(hashing) < MaxHashing
            /\ hashing' = Append(hashing, [username |-> body.username,
                                           password |-> hashPassword(body.password),
                                           isVendor |-> body.isVendor])
            /\ UNCHANGED res       \* no response yet
    /\ UNCHANGED <<storageVars, now, session, cartVars>>

\* POST /api/register once the hash of request i is there
RegisterFinish(i) ==
    /\ i \in 1..Len(hashing)
    /\ userIdCounter <= MaxUsers
    /\ users' = createUser(users, userIdCounter, hashing[i])
    /\ userIdCounter' = userIdCounter + 1
    /\ hashing' = [j \in 1..(Len(hashing) - 1) |->
                      IF j < i THEN hashing[j] ELSE hashing[j + 1]]
    \* req.login(user, ...)
    /\ session' = userIdCounter
    /\ res' = Response("POST /api/register", userIdCounter, 201)
    /\ UNCHANGED <<stores, categories, products, orders, orderItems,
                   storeIdCounter, categoryIdCounter, productIdCounter,
                   orderIdCounter, orderItemIdCounter, now, cartVars>>

\* passport-local answers `Missing credentials` before the verify callback
\* when the body lacks a username or a password
MissingCredentials(body) ==
    body.username \in {"", NoString} \/ body.password \in {"", NoString}

\* Array.find over the Map's values: the first inserted, the lowest id
firstOf(ids) == CHOOSE k \in ids : \A j \in ids : k <= j

\* the LocalStrategy: the id of the user it hands to done, or Null for
\* done(null, false).  No route changes or removes a user, so the record
\* read before `await comparePasswords` is the record used after it.
LocalStrategy(us, username, password) ==
    LET found == getUserByUsername(us, username)
    IN  IF found = {} THEN Null
        ELSE IF ~comparePasswords(password, us[firstOf(found)].password) THEN Null
        ELSE firstOf(found)

\* POST /api/login
PostLogin(body) ==
    /\ LET u == IF MissingCredentials(body) THEN Null
                ELSE LocalStrategy(users, body.username, body.password)
       IN  IF u = Null
           THEN /\ res' = Response("POST /api/login", 0, 401)
                /\ UNCHANGED session
           ELSE IF ~users[u].isVendor
           THEN /\ res' = Response("POST /api/login", u, 403)
                /\ UNCHANGED session
           ELSE /\ session' = u             \* req.login(user, ...)
                /\ res' = Response("POST /api/login", u, 200)
    /\ UNCHANGED <<storageVars, hashing, now, cartVars>>

\* POST /api/logout: req.logout
PostLogout ==
    /\ session' = Null
    /\ res' = Response("POST /api/logout", 0, 200)
    /\ UNCHANGED <<storageVars, hashing, now, cartVars>>

\* --------------------------------------------------------------- the clock
Tick(t) ==
    /\ t > now
    /\ now' = t
    /\ UNCHANGED <<storageVars, hashing, res, session, cartVars>>

\* ------------------------------------------------------- request inputs
StoreIdInputs == 1..MaxStores
ProductIdInputs == 1..MaxProducts
OrderIdInputs == 1..MaxOrders
UserIdInputs == 1..MaxUsers

StatusInputs == Statuses \cup {"shipped", "", NoString}

NoItems == [kind |-> "absent", elems |-> <<>>]
ItemArrays ==
    {[kind |-> "array", elems |-> e] :
        e \in UNION {[1..n -> ProductIdInputs \cup {Null}] : n \in 0..MaxItems}}
ItemsInputs == ItemArrays \cup {NoItems, [kind |-> "number", elems |-> <<>>]}

\* ----------------------------------------- the order lifecycle and the clock
OrdersNext ==
    \/ \E body \in [userId : {1}, storeId : {1, NonInteger}, items : {NoItems}],
          delay \in {0} : PostOrder(body, delay)
    \/ \E id \in OrderIdInputs : GetOrder(id)
    \/ \E id \in OrderIdInputs, status \in StatusInputs :
          PutOrderStatus(id, [status |-> status])
    \/ \E id \in OrderIdInputs : CancelOrder(id)
    \/ \E t \in Instants : Tick(t)

SpecOrders == Init /\ [][OrdersNext]_vars

\* C1: a cancel request on a stored order created more than 10 minutes ago
\* is answered 400 and leaves that order's status as it was, whatever it is.
C1_LateCancelRejected ==
    [][\A id \in OrderIdInputs :
          (/\ id \in DOMAIN orders
           /\ now - orders[id].createdAt > 10 * 60 * 1000
           /\ CancelOrder(id))
          => (/\ res'.status = 400
              /\ orders'[id].status = orders[id].status)]_vars

\* a pending order, 10 minutes 1 second old, has just been refused
C1_Witness ==
    /\ res.op = "POST /api/orders/:id/cancel" /\ res.status = 400 /\ res.at = now
    /\ res.id \in DOMAIN orders
    /\ orders[res.id].status = "pending"
    /\ now - orders[res.id].createdAt = 601000

\* C2: a cancel request on a pending order at most 10 minutes old is answered
\* 200 and sets that order's status to cancelled; no other field of the order
\* and no other order changes.
C2_TimelyCancelAccepted ==
    [][\A id \in OrderIdInputs :
          (/\ id \in DOMAIN orders
           /\ orders[id].status = "pending"
           /\ now - orders[id].createdAt <= 10 * 60 * 1000
           /\ CancelOrder(id))
          => (/\ res'.status = 200
              /\ orders' = [orders EXCEPT ![id].status = "cancelled"])]_vars

\* an order exactly 10 minutes old has just been cancelled, a second order
\* is stored next to it
C2_Witness ==
    /\ res.op = "POST /api/orders/:id/cancel" /\ res.status = 200 /\ res.at = now
    /\ res.id \in DOMAIN orders
    /\ orders[res.id].status = "cancelled"
    /\ now - orders[res.id].createdAt = 600000
    /\ \E other \in DOMAIN orders : other # res.id /\ orders[other].status # "cancelled"

\* C3: an order's status becomes cancelled only from pending.
C3_CancelledOnlyFromPending ==
    [][\A id \in DOMAIN orders :
          (/\ id \in DOMAIN orders'
           /\ orders'[id].status = "cancelled"
           /\ orders[id].status # "cancelled")
          => orders[id].status = "pending"]_vars

\* C4: the status of every stored order is one of the five statuses.
C4_StatusInTheFive == \A id \in DOMAIN orders : orders[id].status \in Statuses

\* ------------------------------------------------ every route, small bodies
\* records created since Init (the items of an order come with the order)
RecordsCreated ==
    (storeIdCounter - (Cardinality(DOMAIN SeedStores) + 1))
    + (productIdCounter - (Cardinality(DOMAIN SeedProducts) + 1))
    + (orderIdCounter - 1) + (userIdCounter - 1) + Len(hashing)

\* the runs explored create at most MaxCreated records on top of the seed
MayCreate == RecordsCreated < MaxCreated

ApiStoreUpdate == [vendorId |-> 1]
ApiProductUpdate == [id |-> Undefined, storeId |-> 2]
ApiStatusInputs == {"processing", ""}

ApiNext ==
    \/ \E id \in StoreIdInputs : GetStore(id)
    \/ \E vendorId \in {1, NonInteger} :
          /\ insertStoreSchema([vendorId |-> vendorId]) => MayCreate
          /\ PostStore([vendorId |-> vendorId])
    \/ \E id \in StoreIdInputs : PutStore(id, ApiStoreUpdate)
    \/ \E id \in StoreIdInputs : DeleteStore(id)
    \/ \E id \in ProductIdInputs : GetProduct(id)
    \/ \E storeId \in {1, 2, Undefined} :
          /\ insertProductSchema([storeId |-> storeId]) => MayCreate
          /\ PostProduct([storeId |-> storeId])
    \/ \E id \in ProductIdInputs : PutProduct(id, ApiProductUpdate)
    \/ \E id \in ProductIdInputs : DeleteProduct(id)
    \/ \E id \in OrderIdInputs : GetOrder(id)
    \/ \E userId \in {1}, storeId \in {1, 2, Undefined},
          items \in {[kind |-> "array", elems |-> <<1>>]} :
          LET body == [userId |-> userId, storeId |-> storeId, items |-> items]
          IN  /\ insertOrderSchema(body) => MayCreate
              /\ PostOrder(body, 0)
    \/ \E id \in OrderIdInputs, status \in ApiStatusInputs :
          PutOrderStatus(id, [status |-> status])
    \/ \E id \in OrderIdInputs : CancelOrder(id)
    \/ \E username \in {"alice", NoString} :
          /\ insertUserSchema([username |-> username, password |-> "p1"]) => MayCreate
          /\ PostUser([username |-> username, password |-> "p1"])
    \/ \E username \in {"bob", ""} :
          LET body == [username |-> username, password |-> "p1", isVendor |-> TRUE]
          IN  /\ username # "" => MayCreate
              /\ RegisterBegin(body)
    \/ \E i \in 1..MaxHashing : RegisterFinish(i)

SpecApi == Init /\ [][ApiNext]_vars

\* --------------------------------------------- registration and POST /api/users
UsersNext ==
    \/ \E username \in Usernames \cup {NoString} :
          PostUser([username |-> username, password |-> "p1"])
    \/ \E username \in Usernames \cup {""}, password \in {"p1", NoString},
          isVendor \in BOOLEAN :
          RegisterBegin([username |-> username, password |-> password,
                         isVendor |-> isVendor])
    \/ \E i \in 1..MaxHashing : RegisterFinish(i)

SpecUsers == Init /\ [][UsersNext]_vars

\* --------------------------------- the create and update routes, any body
IntegerInputs == {1, 2, NonInteger, Undefined}

ValidateNext ==
    \/ \E vendorId \in IntegerInputs : PostStore([vendorId |-> vendorId])
    \/ \E id \in StoreIdInputs, vendorId \in IntegerInputs :
          PutStore(id, [vendorId |-> vendorId])
    \/ \E storeId \in IntegerInputs : PostProduct([storeId |-> storeId])
    \/ \E id \in ProductIdInputs, storeId \in IntegerInputs :
          PutProduct(id, [id |-> Undefined, storeId |-> storeId])
    \/ \E userId \in {1, NonInteger}, storeId \in {1, Undefined} :
          \E delay \in RandomDelays :
             PostOrder([userId |-> userId, storeId |-> storeId, items |-> NoItems], delay)
    \/ \E username \in {"alice", NoString} :
          PostUser([username |-> username, password |-> "p1"])

SpecValidate == Init /\ [][ValidateNext]_vars

\* C5: every stored order item references a stored order and a stored product.
C5_OrderItemsReferToStoredRecords ==
    \A k \in DOMAIN orderItems :
        /\ orderItems[k].orderId \in DOMAIN orders
        /\ orderItems[k].productId \in DOMAIN products

\* C6: every stored order references a stored user and a stored store.
C6_OrdersReferToStoredRecords ==
    \A o \in DOMAIN orders :
        /\ orders[o].userId \in DOMAIN users
        /\ orders[o].storeId \in DOMAIN stores

\* C7: no two stored users have the same username.
C7_UsernamesUnique ==
    \A a, b \in DOMAIN users : a # b => users[a].username # users[b].username

\* C8: no step removes a user or a category; a store or a product is removed
\* only by DELETE /api/stores/:id or DELETE /api/products/:id; an order, and
\* an item of an order, is removed only by deleting the store of that order.
C8_OnlyDeletesRemove ==
    [][/\ \A u \in DOMAIN users : u \in DOMAIN users' /\ users'[u] = users[u]
       /\ categories \subseteq categories'
       /\ \A s \in DOMAIN stores \ DOMAIN stores' :
             res'.op = "DELETE /api/stores/:id" /\ res'.id = s
       /\ \A p \in DOMAIN products \ DOMAIN products' :
             \/ res'.op = "DELETE /api/products/:id" /\ res'.id = p
             \/ res'.op = "DELETE /api/stores/:id"
       /\ \A o \in DOMAIN orders \ DOMAIN orders' :
             /\ res'.op = "DELETE /api/stores/:id"
             /\ res'.id = orders[o].storeId
             /\ res'.id \in DOMAIN stores \ DOMAIN stores'
       /\ \A k \in DOMAIN orderItems \ DOMAIN orderItems' :
             /\ res'.op = "DELETE /api/stores/:id"
             /\ orderItems[k].orderId \in DOMAIN orders
             /\ res'.id = orders[orderItems[k].orderId].storeId
             /\ res'.id \in DOMAIN stores \ DOMAIN stores']_vars

\* a store has just been deleted with its order and the order's item, while
\* the order of another store, that order's item and the categories are
\* still stored
C8_Witness ==
    /\ res.op = "DELETE /api/stores/:id" /\ res.status = 200
    /\ orderIdCounter = 3 /\ DOMAIN orders = {2} /\ orders[2].storeId # res.id
    /\ orderItemIdCounter = 3 /\ DOMAIN orderItems = {2} /\ orderItems[2].orderId = 2
    /\ categories = SeedCategories

\* C9: a create or update request whose body violates the schema is answered
\* 400 and changes no stored record.
C9_InvalidBodyRejected ==
    [][/\ \A v \in IntegerInputs : ~IsNumber(v) /\ PostStore([vendorId |-> v])
             => res'.status = 400 /\ UNCHANGED storageVars
       /\ \A id \in StoreIdInputs :
             id \in DOMAIN stores /\ PutStore(id, [vendorId |-> NonInteger])
             => res'.status = 400 /\ UNCHANGED storageVars
       /\ \A v \in IntegerInputs : ~IsNumber(v) /\ PostProduct([storeId |-> v])
             => res'.status = 400 /\ UNCHANGED storageVars
       /\ \A id \in ProductIdInputs :
             id \in DOMAIN products
             /\ PutProduct(id, [id |-> Undefined, storeId |-> NonInteger])
             => res'.status = 400 /\ UNCHANGED storageVars
       /\ \A userId \in {1, NonInteger}, storeId \in {1, Undefined} :
             (~IsNumber(userId) \/ ~IsNumber(storeId))
             /\ (\E delay \in RandomDelays :
                   PostOrder([userId |-> userId, storeId |-> storeId,
                              items |-> NoItems], delay))
             => res'.status = 400 /\ UNCHANGED storageVars
       /\ PostUser([username |-> NoString, password |-> "p1"])
             => res'.status = 400 /\ UNCHANGED storageVars]_vars

\* a store, product or order request by id, other than the status update,
\* that names an id that is not stored
AbsentIdRequest ==
    \/ \E id \in StoreIdInputs :
          /\ id \notin DOMAIN stores
          /\ GetStore(id) \/ PutStore(id, ApiStoreUpdate) \/ DeleteStore(id)
    \/ \E id \in ProductIdInputs :
          /\ id \notin DOMAIN products
          /\ GetProduct(id) \/ PutProduct(id, ApiProductUpdate) \/ DeleteProduct(id)
    \/ \E id \in OrderIdInputs :
          /\ id \notin DOMAIN orders
          /\ GetOrder(id) \/ CancelOrder(id)

\* C10 as stated: every read, update, delete, status-update and cancel request
\* naming an id that is not stored is answered 404 and leaves every
\* collection and every id counter unchanged.
C10_AbsentIdIs404 ==
    [][(\/ AbsentIdRequest
        \/ \E id \in OrderIdInputs, status \in ApiStatusInputs :
              id \notin DOMAIN orders /\ PutOrderStatus(id, [status |-> status]))
       => (res'.status = 404 /\ UNCHANGED storageVars)]_vars

\* C10 amended: the same, for a status update only when its body carries a
\* non-empty string status.
C10_AbsentIdIs404_WithStatus ==
    [][(\/ AbsentIdRequest
        \/ \E id \in OrderIdInputs, status \in ApiStatusInputs :
              /\ id \notin DOMAIN orders
              /\ status # "" /\ status # NoString
              /\ PutOrderStatus(id, [status |-> status]))
       => (res'.status = 404 /\ UNCHANGED storageVars)]_vars

\* DELETE of a product that was stored and deleted before has just been
\* answered 404, with a store and an order still stored
C10_Witness ==
    /\ res.op = "DELETE /api/products/:id" /\ res.status = 404
    /\ res.id < productIdCounter /\ res.id \notin DOMAIN products
    /\ stores # <<>> /\ orders # <<>>

\* ------------------------------------ checkout: orders from creation onwards
\* a POST /api/orders body that also carries the keys the server sets itself
CheckoutBodies ==
    [userId : {1}, storeId : {1}, items : {NoItems}, id : {1},
     status : {"delivered"}, createdAt : {5}, estimatedDelivery : {5}]
    \cup [userId : {NonInteger}, storeId : {1}, items : {NoItems}]

CheckoutStatusInputs == {"delivered"}
\* the one later time the requests of these runs arrive at
CheckoutInstants == {1000}

CheckoutNext ==
    \/ \E body \in CheckoutBodies, delay \in RandomDelays : PostOrder(body, delay)
    \/ \E id \in OrderIdInputs, status \in CheckoutStatusInputs :
          PutOrderStatus(id, [status |-> status])
    \/ \E id \in OrderIdInputs : CancelOrder(id)
    \/ \E id \in {1} : DeleteStore(id)
    \/ \E t \in CheckoutInstants : Tick(t)

SpecCheckout == Init /\ [][CheckoutNext]_vars

C13_CreatedPendingFreshId ==
    [][\A body \in CheckoutBodies, delay \in RandomDelays :
          (PostOrder(body, delay) /\ res'.status # 400)
          => \E id \in DOMAIN orders' \ DOMAIN orders :
                /\ DOMAIN orders' = DOMAIN orders \cup {id}
                /\ \A o \in DOMAIN orders : orders'[o] = orders[o]
                /\ id >= orderIdCounter /\ id < orderIdCounter'
                /\ orders'[id].id = id
                /\ orders'[id].status = "pending"
                /\ orders'[id].createdAt = now]_vars

\* the second order has just been created from a body carrying id 1, status
\* delivered and createdAt 5, after the first order went with its store
C13_Witness ==
    /\ res.op = "POST /api/orders" /\ res.status = 201 /\ res.id = 2
    /\ DOMAIN orders = {2}
    /\ orders[2].id = 2 /\ orders[2].status = "pending" /\ orders[2].createdAt = now
    /\ now > 5

\* ------------------------------------------------- the cart (CartProvider)
\* the setter useLocalStorage returns, called with a value: the state
\* becomes that value, whatever it was
setValue(current, value) == value

\* the products a store page offers to addItem: products 1 and 2 of store 1
\* and product 9 of store 2, as initializeData seeds them
ShownProducts ==
    {[id |-> 1, storeId |-> 1], [id |-> 2, storeId |-> 1], [id |-> 9, storeId |-> 2]}

\* items.findIndex(item => item.productId === product.id), 0 for -1
existingItemIndex(its, product) ==
    IF \E i \in 1..Len(its) : its[i].productId = product.id
    THEN CHOOSE i \in 1..Len(its) :
            /\ its[i].productId = product.id
            /\ \A j \in 1..(i - 1) : its[j].productId # product.id
    ELSE 0

\* items.filter(item => item.id !== itemId)
RECURSIVE filterOutItem(_, _)
filterOutItem(its, itemId) ==
    IF its = <<>> THEN <<>>
    ELSE IF Head(its).id = itemId THEN filterOutItem(Tail(its), itemId)
    ELSE <<Head(its)>> \o filterOutItem(Tail(its), itemId)

\* storeId !== null && storeId !== product.storeId && items.length > 0
fromAnotherStore(product) ==
    cartStoreId # Null /\ cartStoreId # product.storeId /\ Len(cartItems) > 0

\* the items addItem hands to setItems: computed from `items` as the render
\* that created the handler saw them
addedItems(its, product, quantity) ==
    LET k == existingItemIndex(its, product)
    IN  IF k > 0
        THEN [its EXCEPT ![k].quantity = its[k].quantity + quantity]
        ELSE Append(its, [id |-> now, productId |-> product.id, quantity |-> quantity])

\* addItem; confirmed is the answer window.confirm would give
addItem(product, quantity, confirmed) ==
    /\ IF ~user
       THEN /\ location' = "/auth"         \* toast, setLocation("/auth")
            /\ UNCHANGED <<cartItems, cartStoreId, isCartOpen>>
       ELSE IF fromAnotherStore(product) /\ ~confirmed
       THEN UNCHANGED <<cartItems, cartStoreId, isCartOpen, location>>
       ELSE LET cleared == fromAnotherStore(product)
                \* clearCart(), then the setters of addItem itself
                afterClearItems == IF cleared THEN setValue(cartItems, <<>>) ELSE cartItems
                afterClearStore == IF cleared THEN setValue(cartStoreId, Null) ELSE cartStoreId
            IN  /\ Len(addedItems(cartItems, product, quantity)) <= MaxCartItems
                /\ \A i \in 1..Len(addedItems(cartItems, product, quantity)) :
                      addedItems(cartItems, product, quantity)[i].quantity <= MaxQuantity
                /\ cartStoreId' = setValue(afterClearStore, product.storeId)
                /\ cartItems' = setValue(afterClearItems,
                                         addedItems(cartItems, product, quantity))
                \* openCart(), the user being set
                /\ isCartOpen' = TRUE
                /\ UNCHANGED location
    /\ UNCHANGED <<storageVars, hashing, session, now, res, user>>

removeItem(itemId) ==
    /\ IF ~user
       THEN UNCHANGED <<cartItems, cartStoreId>>
       ELSE LET updatedItems == filterOutItem(cartItems, itemId)
            IN  /\ cartItems' = setValue(cartItems, updatedItems)
                /\ cartStoreId' = IF Len(updatedItems) = 0
                                  THEN setValue(cartStoreId, Null) ELSE cartStoreId
    /\ UNCHANGED <<storageVars, hashing, session, now, res, user, isCartOpen, location>>

updateQuantity(itemId, quantity) ==
    IF user /\ quantity < 1
    THEN removeItem(itemId)
    ELSE /\ IF ~user
            THEN UNCHANGED cartItems
            ELSE cartItems' = setValue(cartItems,
                    [i \in 1..Len(cartItems) |->
                        IF cartItems[i].id = itemId
                        THEN [cartItems[i] EXCEPT !.quantity = quantity]
                        ELSE cartItems[i]])
         /\ UNCHANGED <<storageVars, hashing, session, now, res, user, cartStoreId,
                        isCartOpen, location>>

clearCart ==
    /\ cartItems' = setValue(cartItems, <<>>)
    /\ cartStoreId' = setValue(cartStoreId, Null)
    /\ UNCHANGED <<storageVars, hashing, session, now, res, user, isCartOpen, location>>

toggleCart ==
    /\ isCartOpen' = IF ~user THEN isCartOpen ELSE ~isCartOpen
    /\ location' = IF ~user THEN "/auth" ELSE location
    /\ UNCHANGED <<storageVars, hashing, session, now, res, user, cartItems, cartStoreId>>

\* the same with `if (!user)` left out
openCartNoUserCheck ==
    /\ isCartOpen' = TRUE
    /\ UNCHANGED <<storageVars, hashing, session, now, res, user, cartItems, cartStoreId,
                   location>>

openCart ==
    /\ isCartOpen' = IF ~user THEN isCartOpen ELSE TRUE
    /\ location' = IF ~user THEN "/auth" ELSE location
    /\ UNCHANGED <<storageVars, hashing, session, now, res, user, cartItems, cartStoreId>>

closeCart ==
    /\ isCartOpen' = FALSE
    /\ UNCHANGED <<storageVars, hashing, session, now, res, user, cartItems, cartStoreId,
                   location>>

\* useAuth().user becomes set; the auth page, when it is the page shown,
\* then redirects to the home page
LogIn ==
    /\ ~user
    /\ user' = TRUE
    /\ location' = IF location = "/auth" THEN "/" ELSE location
    /\ UNCHANGED <<storageVars, hashing, session, now, res, cartItems, cartStoreId,
                   isCartOpen>>

\* useAuth().user becomes null; the effect on [user] then runs clearCart()
\* and setIsCartOpen(false)
LogOut ==
    /\ user
    /\ user' = FALSE
    /\ cartItems' = setValue(cartItems, <<>>)
    /\ cartStoreId' = setValue(cartStoreId, Null)
    /\ isCartOpen' = FALSE
    /\ UNCHANGED <<storageVars, hashing, session, now, res, location>>

\* the ids of the cart's lines, and one id no line has
ItemIdInputs == {cartItems[i].id : i \in 1..Len(cartItems)} \cup {7}
\* the one later time the clicks of these runs happen at
CartInstants == {1000}

CartNext ==
    \/ \E product \in ShownProducts, confirmed \in BOOLEAN : addItem(product, 1, confirmed)
    \/ \E itemId \in ItemIdInputs : removeItem(itemId)
    \/ \E itemId \in ItemIdInputs, quantity \in 0..MaxQuantity :
          updateQuantity(itemId, quantity)
    \/ clearCart
    \/ toggleCart
    \/ openCart
    \/ closeCart
    \/ LogIn
    \/ LogOut
    \/ \E t \in CartInstants : Tick(t)

SpecCart == Init /\ [][CartNext]_vars

\* the store a shown product belongs to
storeOfProduct(productId) ==
    (CHOOSE product \in ShownProducts : product.id = productId).storeId

\* C12: every item in the cart belongs to the store recorded in the cart's
\* storeId.
C12_CartOfOneStore ==
    \A i \in 1..Len(cartItems) : storeOfProduct(cartItems[i].productId) = cartStoreId

\* --------------------------------------- the order lifecycle, further claims
\* C14: a cancel request on a stored order whose status is cancelled or
\* delivered is answered 400 and leaves every order as it was, whatever the
\* order's age.
C14_FinishedOrderNotCancelled ==
    [][\A id \in OrderIdInputs :
          (/\ id \in DOMAIN orders
           /\ orders[id].status \in {"cancelled", "delivered"}
           /\ CancelOrder(id))
          => (res'.status = 400 /\ orders' = orders)]_vars

\* the cancel of a delivered order less than 10 minutes old has just been
\* refused
C14_Witness ==
    /\ res.op = "POST /api/orders/:id/cancel" /\ res.status = 400 /\ res.at = now
    /\ res.id \in DOMAIN orders
    /\ orders[res.id].status = "delivered"
    /\ now - orders[res.id].createdAt < 10 * 60 * 1000

\* C15: once an order's status is delivered or cancelled, no step changes it.
C15_DeliveredCancelledTerminal ==
    [][\A id \in DOMAIN orders \cap DOMAIN orders' :
          orders[id].status \in {"delivered", "cancelled"}
          => orders'[id].status = orders[id].status]_vars

\* C16: the server accepts a cancel request on a stored order exactly when
\* the orders page, at the same time, offers to cancel that order.
C16_ClientAndServerAgree ==
    [][\A id \in OrderIdInputs :
          (id \in DOMAIN orders /\ CancelOrder(id))
          => (canCancelOrder(orders[id], now) <=> res'.status = 200)]_vars

\* ------------------------------- updates with an id in the body, and deletes
\* PUT bodies that carry an id key; Undefined is a key left out
UpdateNext ==
    \/ \E id \in StoreIdInputs : GetStore(id)
    \/ PostStore([vendorId |-> 1])
    \/ \E id \in StoreIdInputs, bodyId \in StoreIdInputs :
          PutStore(id, [id |-> bodyId])
    \/ \E id \in StoreIdInputs : DeleteStore(id)
    \/ \E id \in ProductIdInputs : GetProduct(id)
    \/ \E storeId \in StoreIdInputs : PostProduct([storeId |-> storeId])
    \/ \E id \in ProductIdInputs, bodyId \in ProductIdInputs \cup {Undefined},
          storeId \in StoreIdInputs \cup {Undefined} :
          PutProduct(id, [id |-> bodyId, storeId |-> storeId])
    \/ \E storeId \in StoreIdInputs, productId \in ProductIdInputs :
          PostOrder([userId |-> 1, storeId |-> storeId,
                     items |-> [kind |-> "array", elems |-> <<productId>>]], 0)

SpecUpdate == Init /\ [][UpdateNext]_vars

\* C17: a DELETE /api/stores/:id answered 200 leaves no store under that id,
\* no product and no order with that storeId and no item of such an order,
\* and leaves every other store, product, order, item, user and category as
\* it was.
C17_DeleteStoreCascades ==
    [][\A id \in StoreIdInputs :
          (DeleteStore(id) /\ res'.status = 200)
          => LET gone == {o \in DOMAIN orders : orders[o].storeId = id}
             IN  /\ id \notin DOMAIN stores'
                 /\ \A p \in DOMAIN products' : products'[p].storeId # id
                 /\ \A o \in DOMAIN orders' : orders'[o].storeId # id
                 /\ \A k \in DOMAIN orderItems' : orderItems'[k].orderId \notin gone
                 /\ \A s \in DOMAIN stores \ {id} :
                       s \in DOMAIN stores' /\ stores'[s] = stores[s]
                 /\ \A p \in DOMAIN products :
                       products[p].storeId # id
                       => p \in DOMAIN products' /\ products'[p] = products[p]
                 /\ \A o \in DOMAIN orders \ gone :
                       o \in DOMAIN orders' /\ orders'[o] = orders[o]
                 /\ \A k \in DOMAIN orderItems :
                       orderItems[k].orderId \notin gone
                       => k \in DOMAIN orderItems' /\ orderItems'[k] = orderItems[k]
                 /\ UNCHANGED <<users, categories>>]_vars

\* C20: every store and every product is stored under the key that is its
\* own id field.
C20_KeyIsIdField ==
    /\ \A k \in DOMAIN stores : stores[k].id = k
    /\ \A k \in DOMAIN products : products[k].id = k

\* ------------------------------------------- POST /api/orders, any items
ItemsBodies == [userId : {1, NonInteger}, storeId : {1, 2}, items : ItemsInputs]

ItemsNext ==
    \/ \E body \in ItemsBodies : PostOrder(body, 0)
    \/ \E id \in OrderIdInputs : GetOrder(id)

SpecItems == Init /\ [][ItemsNext]_vars

\* C18: a POST /api/orders answered 400 or 500 has added no order and no
\* order item.
C18_FailedOrderAddsNothing ==
    [][\A body \in ItemsBodies :
          (PostOrder(body, 0) /\ res'.status \in {400, 500})
          => UNCHANGED <<orders, orderItems>>]_vars

\* the keys and the counter of one collection, before and after a step: the
\* stored keys lie below the counter, the counter never goes back, and a key
\* that is new lies at or above the old counter and below the new one (so
\* above every id handed out before, stored or deleted since)
IdsAscend(keys, counter, keysAfter, counterAfter) ==
    /\ \A k \in keys : k < counter
    /\ counterAfter >= counter
    /\ \A k \in keysAfter \ keys : k >= counter /\ k < counterAfter

\* C19: for users, stores, products, orders and order items, every id a
\* create hands out is greater than every id handed out before, also after
\* deletions.
C19_IdsNeverReused ==
    [][/\ IdsAscend(DOMAIN users, userIdCounter, DOMAIN users', userIdCounter')
       /\ IdsAscend(DOMAIN stores, storeIdCounter, DOMAIN stores', storeIdCounter')
       /\ IdsAscend(DOMAIN products, productIdCounter,
                    DOMAIN products', productIdCounter')
       /\ IdsAscend(DOMAIN orders, orderIdCounter, DOMAIN orders', orderIdCounter')
       /\ IdsAscend(DOMAIN orderItems, orderItemIdCounter,
                    DOMAIN orderItems', orderItemIdCounter')]_vars

\* product 1 was deleted, and the product created after that got id 2
C19_Witness ==
    /\ res.op = "POST /api/products" /\ res.status = 201 /\ res.id = 2
    /\ DOMAIN products = {2} /\ products[2].id = 2
    /\ productIdCounter = 3

\* ----------------------------------------------- accounts, login and logout
Passwords == {"p1", "p2"}
LoginBodies == [username : Usernames \cup {NoString}, password : Passwords \cup {NoString}]

LoginNext ==
    \/ \E username \in Usernames, password \in Passwords :
          PostUser([username |-> username, password |-> password])
    \/ \E username \in Usernames, password \in Passwords, isVendor \in BOOLEAN :
          RegisterBegin([username |-> username, password |-> password,
                         isVendor |-> isVendor])
    \/ \E i \in 1..MaxHashing : RegisterFinish(i)
    \/ \E body \in LoginBodies : PostLogin(body)
    \/ PostLogout

SpecLogin == Init /\ [][LoginNext]_vars

\* the stored users whose username and password, as the account was created
\* with them, are those of the body
accountsOf(body) ==
    {u \in DOMAIN users : /\ users[u].username = body.username
                          /\ users[u].password.of = body.password}

\* C21: POST /api/login sets the session only to a vendor; with the username
\* and password of a stored user that is not a vendor it answers 403, with a
\* username and password that are those of no stored user it answers 401,
\* and in both cases the session stays as it was.
C21_LoginOnlyForVendors ==
    [][\A body \in LoginBodies :
          PostLogin(body)
          => /\ res'.status = 200
                => session' \in DOMAIN users /\ users[session'].isVendor
             /\ (\E u \in accountsOf(body) : ~users[u].isVendor)
                => res'.status = 403 /\ UNCHANGED session
             /\ accountsOf(body) = {}
                => res'.status = 401 /\ UNCHANGED session]_vars

\* ------------------------------------------------ the cart, a further claim
\* C22: while no user is logged in, addItem, removeItem, updateQuantity,
\* openCart and toggleCart leave the cart's items, storeId and open flag as
\* they are; a step that takes the user from logged in to logged out leaves
\* the cart empty, its storeId null and the cart closed.
C22_LoggedOutCartUntouched ==
    [][/\ (/\ ~user
           /\ \/ \E product \in ShownProducts, confirmed \in BOOLEAN :
                    addItem(product, 1, confirmed)
              \/ \E itemId \in ItemIdInputs : removeItem(itemId)
              \/ \E itemId \in ItemIdInputs, quantity \in 0..MaxQuantity :
                    updateQuantity(itemId, quantity)
              \/ openCart
              \/ toggleCart)
          => UNCHANGED <<cartItems, cartStoreId, isCartOpen>>
       /\ (user /\ ~user')
          => (cartItems' = <<>> /\ cartStoreId' = Null /\ isCartOpen' = FALSE)]_vars

\* nobody is logged in, the cart is empty and closed, and one of addItem,
\* openCart and toggleCart has sent the browser to the login page at a time
\* later than the start
C22_Witness ==
    /\ ~user /\ location = "/auth" /\ now > 0
    /\ cartItems = <<>> /\ cartStoreId = Null /\ ~isCartOpen

====
